---------------------------- MODULE Spec2Model ----------------------------
(***************************************************************************)
(* A model of hosts_updater_rs: the document validator (fetcher.rs), the   *)
(* managed-section codec and write_hosts (hosts.rs), and the update cycle  *)
(* driven by the scheduler (main.rs, scheduler.rs).                        *)
(*                                                                         *)
(* A Rust String is modelled as the sequence of its Unicode code points;   *)
(* as_bytes()/len() go through Utf8Bytes, the UTF-8 encoding.              *)
(***************************************************************************)
EXTENDS Integers, Sequences, FiniteSets, TLC

VARIABLES
    hosts,            \* content of the system hosts file (get_hosts_path())
    prevHosts,        \* content of the hosts file before the latest write_hosts
    origHosts,        \* content of the hosts file at start-up
    sources_content,  \* Vec<(String, String)>: the (url, content) pairs handed to write_hosts
    last_update,      \* the timestamp string handed to write_hosts
    cleaned_content,  \* write_hosts: result of remove_auto_managed_section
    auto_section,     \* write_hosts: result of build_auto_section
    runs,             \* number of write_hosts calls so far
    sameRuns,         \* number of consecutive write_hosts calls with the present inputs
    content,          \* validate_hosts_content: the text under validation
    verdict,          \* validate_hosts_content: the Result it returned
    domain,           \* is_valid_domain: the token under validation
    domainOk,         \* is_valid_domain: the bool it returned
    checked,          \* which validator ran last: "none", "content" or "domain"
    pc,               \* position of the scheduler / run_update
    cycle,            \* number of update cycles started
    idx,              \* fetch_all_hosts: index of the next source to fetch
    results,          \* fetch_all_hosts: the results vector
    config,           \* the Config loaded by main: hosts_sources, backup_before_update
    cycleStartHosts,  \* content of the hosts file when the present cycle started
    backupFile,       \* content of the backup file written by backup_hosts
    outcome,          \* what the latest finished cycle returned
    wrote,            \* whether write_hosts was invoked in the present cycle
    ticks,            \* Scheduler::start: ticks of the interval consumed by the loop
    inflight,         \* number of task futures begun and not yet completed
    finished,         \* number of task futures completed
    failures          \* number of cycles in which run_update returned an error

vars == <<hosts, prevHosts, origHosts, sources_content, last_update, cleaned_content,
          auto_section, runs, sameRuns, content, verdict, domain, domainOk, checked,
          pc, cycle, idx, results, config, cycleStartHosts, backupFile, outcome, wrote,
          ticks, inflight, finished, failures>>

mergeVars == <<hosts, prevHosts, origHosts, sources_content, last_update, cleaned_content,
               auto_section, runs, sameRuns>>
validateVars == <<content, verdict, domain, domainOk, checked>>
cycleVars == <<pc, cycle, idx, results, config, cycleStartHosts, backupFile, outcome, wrote,
               ticks, inflight, finished, failures>>

---------------------------------------------------------------------------
(* Literals of the source *)

\* START_MARKER is the text '# >>> hosts_updater_rs START >>>'
START_MARKER == <<35, 32, 62, 62, 62, 32, 104, 111, 115, 116, 115, 95, 117, 112, 100, 97, 116, 101, 114, 95, 114, 115, 32, 83, 84, 65, 82, 84, 32, 62, 62, 62>>

\* END_MARKER is the text '# <<< hosts_updater_rs END <<<'
END_MARKER == <<35, 32, 60, 60, 60, 32, 104, 111, 115, 116, 115, 95, 117, 112, 100, 97, 116, 101, 114, 95, 114, 115, 32, 69, 78, 68, 32, 60, 60, 60>>

\* DISCLAIMER is the text of hosts.rs line 192: '# ', 4 CJK characters, ' hosts_updater_rs ',
\* 4 CJK characters, a full-width comma and 6 CJK characters
DISCLAIMER == <<35, 32, 27492, 21306, 22495, 30001, 32, 104, 111, 115, 116, 115, 95, 117, 112, 100, 97, 116, 101, 114, 95, 114, 115, 32, 33258, 21160, 31649, 29702, 65292, 35831, 21247, 25163, 21160, 20462, 25913>>

\* LAST_UPDATE_PREFIX is the text of hosts.rs line 194: '# ', 4 CJK characters, ': '
LAST_UPDATE_PREFIX == <<35, 32, 26368, 21518, 26356, 26032, 58, 32>>

\* SOURCE_PREFIX is the text '# Source: '
SOURCE_PREFIX == <<35, 32, 83, 111, 117, 114, 99, 101, 58, 32>>

\* the one-character strings "\n", "\r", " ", "\t", "."
LF == <<10>>
CR == <<13>>
SP == <<32>>
TAB == <<9>>
DOT == <<46>>

---------------------------------------------------------------------------
(* The str primitives of the Rust standard library the code calls *)

\* char::is_whitespace: the characters with the Unicode White_Space property
WhiteSpace == (9..13) \cup {32, 133, 160, 5760, 8232, 8233, 8239, 8287, 12288} \cup (8192..8202)
IsWhitespace(c) == c \in WhiteSpace

\* the first index i in lo..hi at which (s[i] \in set) = member, 0 when there is none
RECURSIVE FirstAt(_, _, _, _, _)
FirstAt(s, set, member, lo, hi) ==
    IF lo > hi THEN 0
    ELSE IF lo = hi THEN (IF (s[lo] \in set) = member THEN lo ELSE 0)
    ELSE LET mid == (lo + hi) \div 2
             l == FirstAt(s, set, member, lo, mid)
         IN  IF l # 0 THEN l ELSE FirstAt(s, set, member, mid + 1, hi)

\* the last index i in lo..hi at which (s[i] \in set) = member, 0 when there is none
RECURSIVE LastAt(_, _, _, _, _)
LastAt(s, set, member, lo, hi) ==
    IF lo > hi THEN 0
    ELSE IF lo = hi THEN (IF (s[lo] \in set) = member THEN lo ELSE 0)
    ELSE LET mid == (lo + hi) \div 2
             r == LastAt(s, set, member, mid + 1, hi)
         IN  IF r # 0 THEN r ELSE LastAt(s, set, member, lo, mid)

\* str::trim_end
TrimEnd(s) == SubSeq(s, 1, LastAt(s, WhiteSpace, FALSE, 1, Len(s)))

\* str::trim
Trim(s) ==
    LET b == FirstAt(s, WhiteSpace, FALSE, 1, Len(s)) IN
    IF b = 0 THEN <<>> ELSE SubSeq(s, b, LastAt(s, WhiteSpace, FALSE, 1, Len(s)))

\* str::split_inclusive('\n') from index `from`: pieces that keep their terminating "\n"
RECURSIVE SplitInclusive(_, _)
SplitInclusive(s, from) ==
    IF from > Len(s) THEN <<>>
    ELSE LET nl == FirstAt(s, {10}, TRUE, from, Len(s)) IN
         IF nl = 0 THEN <<SubSeq(s, from, Len(s))>>
         ELSE <<SubSeq(s, from, nl)>> \o SplitInclusive(s, nl + 1)

\* the closure of str::lines: drop the "\n", then one "\r" before it
StripTerminator(piece) ==
    LET n == Len(piece) IN
    IF n > 0 /\ piece[n] = 10
    THEN IF n > 1 /\ piece[n - 1] = 13 THEN SubSeq(piece, 1, n - 2) ELSE SubSeq(piece, 1, n - 1)
    ELSE piece

\* str::lines
Lines(s) ==
    LET pieces == SplitInclusive(s, 1) IN
    [k \in 1..Len(pieces) |-> StripTerminator(pieces[k])]

\* str::split_whitespace from index `from`
RECURSIVE SplitWhitespace(_, _)
SplitWhitespace(s, from) ==
    LET b == FirstAt(s, WhiteSpace, FALSE, from, Len(s)) IN
    IF b = 0 THEN <<>>
    ELSE LET e == FirstAt(s, WhiteSpace, TRUE, b, Len(s)) IN
         IF e = 0 THEN <<SubSeq(s, b, Len(s))>>
         ELSE <<SubSeq(s, b, e - 1)>> \o SplitWhitespace(s, e + 1)

\* str::split(sep) for a one-character separator, from index `from`: empty pieces are kept
RECURSIVE SplitChar(_, _, _)
SplitChar(s, sep, from) ==
    LET i == FirstAt(s, {sep}, TRUE, from, Len(s)) IN
    IF i = 0 THEN <<SubSeq(s, from, Len(s))>>
    ELSE <<SubSeq(s, from, i - 1)>> \o SplitChar(s, sep, i + 1)

\* concatenation of the strings ss[lo..hi]
RECURSIVE ConcatRange(_, _, _)
ConcatRange(ss, lo, hi) ==
    IF lo > hi THEN <<>>
    ELSE IF lo = hi THEN ss[lo]
    ELSE LET mid == (lo + hi) \div 2 IN ConcatRange(ss, lo, mid) \o ConcatRange(ss, mid + 1, hi)

Concat(ss) == ConcatRange(ss, 1, Len(ss))

---------------------------------------------------------------------------
(* hosts.rs: the managed-section codec *)

\* RemoveLoop with the markers compared to the untrimmed line
RECURSIVE RemoveLoop_Untrimmed(_, _, _)
RemoveLoop_Untrimmed(ls, k, st) ==
    IF k > Len(ls) THEN st
    ELSE IF ls[k] = START_MARKER
         THEN RemoveLoop_Untrimmed(ls, k + 1,
                                   [st EXCEPT !.in_auto_section = TRUE, !.found_start = TRUE])
    ELSE IF ls[k] = END_MARKER
         THEN RemoveLoop_Untrimmed(ls, k + 1, [st EXCEPT !.in_auto_section = FALSE])
    ELSE IF ~st.in_auto_section
         THEN RemoveLoop_Untrimmed(ls, k + 1, [st EXCEPT !.result = st.result \o ls[k] \o LF])
    ELSE RemoveLoop_Untrimmed(ls, k + 1, st)

\* remove_auto_managed_section, the loop over content.lines(): the state
\* (result, in_auto_section, found_start) after the lines from k on
RECURSIVE RemoveLoop(_, _, _)
RemoveLoop(ls, k, st) ==
    IF k > Len(ls) THEN st
    ELSE IF Trim(ls[k]) = START_MARKER
         THEN RemoveLoop(ls, k + 1, [st EXCEPT !.in_auto_section = TRUE, !.found_start = TRUE])
    ELSE IF Trim(ls[k]) = END_MARKER
         THEN RemoveLoop(ls, k + 1, [st EXCEPT !.in_auto_section = FALSE])
    ELSE IF ~st.in_auto_section
         THEN RemoveLoop(ls, k + 1, [st EXCEPT !.result = st.result \o ls[k] \o LF])
    ELSE RemoveLoop(ls, k + 1, st)

\* remove_auto_managed_section without the found_start test of line 179
remove_section_always_rebuilt(c) ==
    TrimEnd(RemoveLoop(Lines(c), 1,
                       [result |-> <<>>, in_auto_section |-> FALSE, found_start |-> FALSE]).result)

\* remove_auto_managed_section giving back the content when the region is never closed
remove_section_unless_open(c) ==
    LET st == RemoveLoop(Lines(c), 1,
                         [result |-> <<>>, in_auto_section |-> FALSE, found_start |-> FALSE])
    IN  IF ~st.found_start \/ st.in_auto_section THEN c ELSE TrimEnd(st.result)

remove_auto_managed_section(c) ==
    LET st == RemoveLoop(Lines(c), 1,
                         [result |-> <<>>, in_auto_section |-> FALSE, found_start |-> FALSE])
    IN  IF ~st.found_start THEN c ELSE TrimEnd(st.result)

\* BuildLoop skipping a source whose url repeats that of the source before it
RECURSIVE BuildLoop_SkipRepeated(_, _, _)
BuildLoop_SkipRepeated(srcs, k, sect) ==
    IF k > Len(srcs) THEN sect
    ELSE IF k > 1 /\ srcs[k][1] = srcs[k - 1][1] THEN BuildLoop_SkipRepeated(srcs, k + 1, sect)
    ELSE BuildLoop_SkipRepeated(srcs, k + 1,
             sect \o SOURCE_PREFIX \o srcs[k][1] \o LF \o Trim(srcs[k][2]) \o LF \o LF)

\* build_auto_section, the loop over sources
RECURSIVE BuildLoop(_, _, _)
BuildLoop(srcs, k, sect) ==
    IF k > Len(srcs) THEN sect
    ELSE BuildLoop(srcs, k + 1,
                   sect \o SOURCE_PREFIX \o srcs[k][1] \o LF \o Trim(srcs[k][2]) \o LF \o LF)

build_auto_section(srcs, ts) ==
    BuildLoop(srcs, 1, START_MARKER \o LF \o DISCLAIMER \o LF \o LAST_UPDATE_PREFIX \o ts \o LF \o LF)
        \o END_MARKER \o LF

\* write_hosts, lines 138-142: the new content of the file
Combine(cleaned, sect) ==
    IF Trim(cleaned) = <<>> THEN sect ELSE TrimEnd(cleaned) \o LF \o LF \o sect

---------------------------------------------------------------------------
(* fetcher.rs: the validators *)

\* the UTF-8 encoding of one character
Utf8Char(c) ==
    IF c < 128 THEN <<c>>
    ELSE IF c < 2048 THEN <<192 + (c \div 64), 128 + (c % 64)>>
    ELSE IF c < 65536
         THEN <<224 + (c \div 4096), 128 + ((c \div 64) % 64), 128 + (c % 64)>>
    ELSE <<240 + (c \div 262144), 128 + ((c \div 4096) % 64),
           128 + ((c \div 64) % 64), 128 + (c % 64)>>

\* str::as_bytes: the UTF-8 encoding of a string
Utf8Bytes(s) == Concat([i \in 1..Len(s) |-> Utf8Char(s[i])])

\* char::is_alphanumeric of `byte as char`, a character of U+0000..U+00FF:
\* Alphabetic, or of the general categories Nd, Nl, No
IsAlphanumeric(c) ==
    \/ c \in 48..57 \/ c \in 65..90 \/ c \in 97..122
    \/ c \in {170, 181, 186} \/ c \in 192..214 \/ c \in 216..246 \/ c \in 248..255
    \/ c \in {178, 179, 185, 188, 189, 190}

IsDigit(c) == c \in 48..57
IsHexDigit(c) == c \in 48..57 \/ c \in 65..70 \/ c \in 97..102

\* the decimal value of a string of digits
RECURSIVE DecimalValue(_, _)
DecimalValue(s, acc) ==
    IF s = <<>> THEN acc ELSE DecimalValue(Tail(s), 10 * acc + (Head(s) - 48))

\* one octet of Ipv4Addr::from_str: 1-3 digits, no leading zero, at most 255
IsOctet(s) ==
    /\ Len(s) \in 1..3
    /\ \A i \in 1..Len(s) : IsDigit(s[i])
    /\ (Len(s) > 1 => s[1] # 48)
    /\ DecimalValue(s, 0) <= 255

\* ip.parse::<std::net::Ipv4Addr>().is_ok()
IsIpv4(s) ==
    LET parts == SplitChar(s, 46, 1) IN
    Len(parts) = 4 /\ \A i \in 1..4 : IsOctet(parts[i])

\* one group of Ipv6Addr::from_str: 1-4 hexadecimal digits
IsHexGroup(s) == Len(s) \in 1..4 /\ \A i \in 1..Len(s) : IsHexDigit(s[i])

\* the colon-separated groups of one side of an IPv6 address: the number of 16-bit
\* groups they fill (a trailing dotted quad fills two), or -1 when malformed
GroupCount(s, allowV4) ==
    IF s = <<>> THEN 0
    ELSE LET parts == SplitChar(s, 58, 1)
             n == Len(parts)
         IN  IF \A i \in 1..n : IsHexGroup(parts[i]) THEN n
             ELSE IF allowV4 /\ IsIpv4(parts[n]) /\ \A i \in 1..(n - 1) : IsHexGroup(parts[i])
                  THEN n + 1
             ELSE -1

\* index of the first "::" of s, 0 when there is none
DoubleColonAt(s) ==
    LET at == {i \in 1..(Len(s) - 1) : s[i] = 58 /\ s[i + 1] = 58} IN
    IF at = {} THEN 0 ELSE CHOOSE i \in at : \A j \in at : i <= j

\* ip.parse::<std::net::Ipv6Addr>().is_ok()
IsIpv6(s) ==
    LET d == DoubleColonAt(s) IN
    IF d = 0 THEN s # <<>> /\ GroupCount(s, TRUE) = 8
    ELSE LET head == GroupCount(SubSeq(s, 1, d - 1), FALSE)
             tail == GroupCount(SubSeq(s, d + 2, Len(s)), TRUE)
         IN  head >= 0 /\ tail >= 0 /\ head + tail <= 7

is_valid_ip(ip) ==
    IF IsIpv4(ip) THEN TRUE
    ELSE IF Len(ip) >= 1 /\ ip[1] = 91 /\ ip[Len(ip)] = 93
         THEN IsIpv6(SubSeq(ip, 2, Len(ip) - 1))
    ELSE IsIpv6(ip)

\* is_valid_domain, the body of the loop over labels for one label
LabelOk(label) ==
    LET bytes == Utf8Bytes(label)
        label_len == Len(bytes)
    IN  IF label_len = 0 \/ label_len > 63 THEN FALSE
        ELSE IF ~IsAlphanumeric(bytes[1]) \/ ~IsAlphanumeric(bytes[label_len]) THEN FALSE
        ELSE \A i \in 1..label_len : IsAlphanumeric(bytes[i]) \/ bytes[i] = 45

\* is_valid_domain, the loop over labels, returning false at the first bad one
RECURSIVE LabelLoop(_, _)
LabelLoop(labels, k) ==
    IF k > Len(labels) THEN TRUE
    ELSE IF ~LabelOk(labels[k]) THEN FALSE
    ELSE LabelLoop(labels, k + 1)

is_valid_domain(d) ==
    IF d = <<>> THEN FALSE
    ELSE IF Len(Utf8Bytes(d)) > 253 THEN FALSE
    ELSE LabelLoop(SplitChar(d, 46, 1), 1)

\* the values of Result<()>: Ok(()) and the errors the validators build
Ok == [ok |-> TRUE, kind |-> "ok", at |-> 0, text |-> <<>>]
Err(kind, at, text) == [ok |-> FALSE, kind |-> kind, at |-> at, text |-> text]

\* validate_hosts_line, the loop over parts[1..]
RECURSIVE DomainLoop(_, _, _)
DomainLoop(parts, k, line_num) ==
    IF k > Len(parts) THEN Ok
    ELSE IF ~is_valid_domain(parts[k]) THEN Err("invalid_domain", line_num, parts[k])
    ELSE DomainLoop(parts, k + 1, line_num)

validate_hosts_line(line, line_num) ==
    LET parts == SplitWhitespace(line, 1) IN
    IF Len(parts) < 2 THEN Err("missing_field", line_num, line)
    ELSE IF ~is_valid_ip(parts[1]) THEN Err("invalid_ip", line_num, parts[1])
    ELSE DomainLoop(parts, 2, line_num)

\* the control characters validate_hosts_content rejects (line 51)
IllegalControl == ((0..31) \cup (127..159)) \ {10, 13, 9}

\* validate_hosts_content, the loop over content.chars().enumerate(): the 0-based
\* position of the first illegal control character, -1 when there is none
ControlLoop(c) == FirstAt(c, IllegalControl, TRUE, 1, Len(c)) - 1

\* LineLoop reporting the 0-based line_num
RECURSIVE LineLoop_ZeroBased(_, _)
LineLoop_ZeroBased(ls, k) ==
    IF k > Len(ls) THEN Ok
    ELSE LET line == Trim(ls[k]) IN
         IF line = <<>> \/ line[1] = 35 THEN LineLoop_ZeroBased(ls, k + 1)
         ELSE LET r == validate_hosts_line(line, k - 1) IN
              IF ~r.ok THEN r ELSE LineLoop_ZeroBased(ls, k + 1)

\* validate_hosts_content, the loop over content.lines().enumerate(); k = line_num + 1
RECURSIVE LineLoop(_, _)
LineLoop(ls, k) ==
    IF k > Len(ls) THEN Ok
    ELSE LET line == Trim(ls[k]) IN
         IF line = <<>> \/ line[1] = 35 THEN LineLoop(ls, k + 1)
         ELSE LET r == validate_hosts_line(line, k) IN
              IF ~r.ok THEN r ELSE LineLoop(ls, k + 1)

validate_hosts_content(c) ==
    IF Trim(c) = <<>> THEN Err("empty", 0, <<>>)
    ELSE LET bad == ControlLoop(c) IN
         IF bad >= 0 THEN Err("control", bad, <<>>)
         ELSE LineLoop(Lines(c), 1)

---------------------------------------------------------------------------
(* hosts.rs: write_hosts *)

\* the ways the file system can answer write_hosts: all calls succeed; read_to_string
\* fails; File::create fails; write_all fails after File::create truncated the file,
\* having written nothing or a part of the new content
IoOutcomes == {"ok", "read_err", "create_err", "write_err_empty", "write_err_partial"}

\* write_hosts: its effect on the hosts file and on its locals, for one answer of the
\* file system
write_hosts(srcs, ts, io) ==
    LET cleaned == remove_auto_managed_section(hosts)
        sect == build_auto_section(srcs, ts)
        new_content == Combine(cleaned, sect)
    IN  /\ hosts' = CASE io = "ok" -> new_content
                      [] io = "write_err_empty" -> <<>>
                      [] io = "write_err_partial" -> SubSeq(new_content, 1, Len(new_content) \div 2)
                      [] OTHER -> hosts
        /\ cleaned_content' = IF io = "read_err" THEN cleaned_content ELSE cleaned
        /\ auto_section' = IF io = "read_err" THEN auto_section ELSE sect
        /\ prevHosts' = hosts
        /\ runs' = runs + 1

---------------------------------------------------------------------------
(* Bounds and inputs *)

\* number of write_hosts calls in one behaviour of SpecMerge
MaxRuns == 2

\* number of lines of a document handed to validate_hosts_content
MaxLines == 2

\* number of update cycles in one behaviour of Spec
MaxCycles == 2

\* 'http://a'
UrlA == <<104, 116, 116, 112, 58, 47, 47, 97>>

\* 'https://b'
UrlB == <<104, 116, 116, 112, 115, 58, 47, 47, 98>>

\* '2024-01-15 10:00:00'
Ts1 == <<50, 48, 50, 52, 45, 48, 49, 45, 49, 53, 32, 49, 48, 58, 48, 48, 58, 48, 48>>

\* '2024-01-15 12:00:00'
Ts2 == <<50, 48, 50, 52, 45, 48, 49, 45, 49, 53, 32, 49, 50, 58, 48, 48, 58, 48, 48>>

\* '127.0.0.1 me'
UserLine == <<49, 50, 55, 46, 48, 46, 48, 46, 49, 32, 109, 101>>

\* '  10.0.0.2\\tnas # mine'
UserLine2 == <<32, 32, 49, 48, 46, 48, 46, 48, 46, 50, 9, 110, 97, 115, 32, 35, 32, 109, 105, 110, 101>>

\* '9.9.9.9 old.example'
OldLine == <<57, 46, 57, 46, 57, 46, 57, 32, 111, 108, 100, 46, 101, 120, 97, 109, 112, 108, 101>>

\* '1.1.1.1 a.com'
RecA == <<49, 46, 49, 46, 49, 46, 49, 32, 97, 46, 99, 111, 109>>

\* '\\t::1  a b-c.d'
RecB == <<9, 58, 58, 49, 32, 32, 97, 32, 98, 45, 99, 46, 100>>

\* '[fe80::1] x1'
RecC == <<91, 102, 101, 56, 48, 58, 58, 49, 93, 32, 120, 49>>

\* '6.6.6.6 evil.com'
RecEvil == <<54, 46, 54, 46, 54, 46, 54, 32, 101, 118, 105, 108, 46, 99, 111, 109>>

\* '  # note'
CommentLine == <<32, 32, 35, 32, 110, 111, 116, 101>>

\* '1.1.1.1'
NoName == <<49, 46, 49, 46, 49, 46, 49>>

\* 'not-an-ip a.com'
BadIp == <<110, 111, 116, 45, 97, 110, 45, 105, 112, 32, 97, 46, 99, 111, 109>>

\* '256.1.1.1 a.com'
BadIp2 == <<50, 53, 54, 46, 49, 46, 49, 46, 49, 32, 97, 46, 99, 111, 109>>

\* '1.1.1.1 a.com -b.com'
BadDomain == <<49, 46, 49, 46, 49, 46, 49, 32, 97, 46, 99, 111, 109, 32, 45, 98, 46, 99, 111, 109>>

\* '1.1.1.1 a\\x00'
CtrlLine == <<49, 46, 49, 46, 49, 46, 49, 32, 97, 0>>

\* 'example.com'
TokExample == <<101, 120, 97, 109, 112, 108, 101, 46, 99, 111, 109>>

\* 'localhost'
TokLocalhost == <<108, 111, 99, 97, 108, 104, 111, 115, 116>>

\* 'my-server-123.com'
TokHyphen == <<109, 121, 45, 115, 101, 114, 118, 101, 114, 45, 49, 50, 51, 46, 99, 111, 109>>

\* 'A1-b2.C3'
TokUpper == <<65, 49, 45, 98, 50, 46, 67, 51>>

\* '-invalid.com'
TokLeadHyphen == <<45, 105, 110, 118, 97, 108, 105, 100, 46, 99, 111, 109>>

\* 'invalid-.com'
TokTrailHyphen == <<105, 110, 118, 97, 108, 105, 100, 45, 46, 99, 111, 109>>

\* 'invalid..com'
TokEmptyLabel == <<105, 110, 118, 97, 108, 105, 100, 46, 46, 99, 111, 109>>

\* 'invalid_domain.com'
TokUnderscore == <<105, 110, 118, 97, 108, 105, 100, 95, 100, 111, 109, 97, 105, 110, 46, 99, 111, 109>>

\* 'a.com.'
TokTrailDot == <<97, 46, 99, 111, 109, 46>>

\* '.a'
TokLeadDot == <<46, 97>>

\* '-'
TokOnlyHyphen == <<45>>

\* 'a.b-c--d.e'
TokInnerHyphen == <<97, 46, 98, 45, 99, 45, 45, 100, 46, 101>>

\* 'a/b'
TokSlash == <<97, 47, 98>>

\* '\u00ea.com': e with circumflex, UTF-8 bytes C3 AA
TokLatinE == <<234, 46, 99, 111, 109>>

\* '\u00e9.com': e with acute, UTF-8 bytes C3 A9
TokLatinAcute == <<233, 46, 99, 111, 109>>

\* 'x.\u00b2': superscript two, UTF-8 bytes C2 B2
TokSuperTwo == <<120, 46, 178>>

\* '\u4e2d.com': a CJK character, UTF-8 bytes E4 B8 AD
TokCjk == <<20013, 46, 99, 111, 109>>


\* the string of n characters c
Rep(c, n) == [i \in 1..n |-> c]

\* ss joined with the terminator nl after every line
JoinLines(ss, nl) == Concat([k \in 1..Len(ss) |-> ss[k] \o nl])

\* contents of the hosts file before the first run
InitialContents ==
    { <<>>,
      SP \o LF,
      UserLine \o LF,
      UserLine \o LF \o UserLine2 \o LF \o LF \o TAB \o LF,
      UserLine \o CR \o LF \o UserLine2 \o CR \o LF,
      LF \o UserLine2,
      UserLine \o LF \o END_MARKER \o LF \o UserLine2 \o LF \o SP \o LF,
      UserLine \o LF \o LF \o START_MARKER \o LF \o OldLine \o LF \o END_MARKER \o LF,
      UserLine \o CR \o LF \o SP \o START_MARKER \o TAB \o CR \o LF \o OldLine \o CR \o LF
          \o END_MARKER \o SP \o CR \o LF \o UserLine2 \o CR \o LF,
      END_MARKER \o LF \o UserLine \o LF \o LF \o START_MARKER \o LF \o OldLine \o LF \o LF,
      START_MARKER \o LF \o OldLine \o LF \o END_MARKER \o LF \o UserLine \o LF
          \o START_MARKER \o LF \o OldLine,
      UserLine2 \o LF \o START_MARKER \o LF \o START_MARKER \o LF \o OldLine \o LF
          \o END_MARKER \o LF \o UserLine \o LF \o END_MARKER \o LF \o LF }

\* texts a source may return
DocA == RecA \o LF
DocB == LF \o CommentLine \o CR \o LF \o RecB \o LF \o RecC \o LF \o LF
DocEnd == RecA \o LF \o END_MARKER \o LF \o RecEvil \o LF
DocStart == START_MARKER \o LF \o RecA

\* the documents the validator accepts
AcceptedDocs == {d \in {DocA, DocB, DocEnd, DocStart} : validate_hosts_content(d).ok}

\* lists of (url, content) pairs handed to write_hosts
SourceLists ==
    { s \in { <<>>,
              <<<<UrlA, DocA>>>>,
              <<<<UrlA, DocA>>, <<UrlA, DocA>>>>,
              <<<<UrlA, DocA>>, <<UrlB, DocB>>>>,
              <<<<UrlB, DocB>>, <<UrlA, DocA>>>>,
              <<<<UrlA, DocEnd>>>>,
              <<<<UrlB, DocStart>>, <<UrlA, DocA>>>>,
              <<<<UrlB, DocB>>, <<UrlB, DocA>>, <<UrlB, DocB>>>> } :
        \A k \in 1..Len(s) : s[k][2] \in AcceptedDocs }

\* the lists a later fetch may bring instead
RefreshLists ==
    { s \in { <<>>, <<<<UrlA, DocA>>>>, <<<<UrlB, DocEnd>>, <<UrlA, DocA>>>> } :
        \A k \in 1..Len(s) : s[k][2] \in AcceptedDocs }

Timestamps == {Ts1, Ts2}

---------------------------------------------------------------------------
(* SpecMerge: write_hosts applied repeatedly to a hosts file *)

ValidateIdle ==
    /\ content = <<>>
    /\ verdict = Ok
    /\ domain = <<>>
    /\ domainOk = FALSE
    /\ checked = "none"

CycleIdle ==
    /\ pc = "off"
    /\ cycle = 0
    /\ idx = 1
    /\ results = <<>>
    /\ config = [hosts_sources |-> <<>>, backup_before_update |-> FALSE]
    /\ cycleStartHosts = <<>>
    /\ backupFile = <<>>
    /\ outcome = "none"
    /\ wrote = FALSE
    /\ ticks = 0
    /\ inflight = 0
    /\ finished = 0
    /\ failures = 0

InitMerge ==
    /\ hosts \in InitialContents
    /\ prevHosts = hosts
    /\ origHosts = hosts
    /\ sources_content \in SourceLists
    /\ last_update \in Timestamps
    /\ cleaned_content = <<>>
    /\ auto_section = <<>>
    /\ runs = 0
    /\ sameRuns = 0
    /\ ValidateIdle
    /\ CycleIdle

\* one run of write_hosts with the present sources and timestamp
WriteHosts ==
    /\ runs < MaxRuns
    /\ write_hosts(sources_content, last_update, "ok")
    /\ sameRuns' = sameRuns + 1
    /\ UNCHANGED <<origHosts, sources_content, last_update>>
    /\ UNCHANGED validateVars
    /\ UNCHANGED cycleVars

\* the next run gets other sources or another timestamp
NewInputs ==
    /\ runs \in 1..(MaxRuns - 1)
    /\ \E s \in RefreshLists :
        /\ <<s, Ts2>> # <<sources_content, last_update>>
        /\ sources_content' = s
        /\ last_update' = Ts2
    /\ sameRuns' = 0
    /\ UNCHANGED <<hosts, prevHosts, origHosts, cleaned_content, auto_section, runs>>
    /\ UNCHANGED validateVars
    /\ UNCHANGED cycleVars

NextMerge == WriteHosts \/ NewInputs

SpecMerge == InitMerge /\ [][NextMerge]_vars

---------------------------------------------------------------------------
(* Properties of the managed-section codec and of write_hosts, under SpecMerge *)

IsStartLine(line) == Trim(line) = START_MARKER
IsEndLine(line) == Trim(line) = END_MARKER
StartLines(c) == LET ls == Lines(c) IN {i \in 1..Len(ls) : IsStartLine(ls[i])}
EndLines(c) == LET ls == Lines(c) IN {i \in 1..Len(ls) : IsEndLine(ls[i])}
HasStartLine(c) == StartLines(c) # {}
HasMarkerLine(c) == StartLines(c) # {} \/ EndLines(c) # {}

\* the subsequence of ss at the indices in keep, in order
RECURSIVE Select(_, _, _)
Select(ss, keep, k) ==
    IF k > Len(ss) THEN <<>>
    ELSE (IF k \in keep THEN <<ss[k]>> ELSE <<>>) \o Select(ss, keep, k + 1)

\* line i is read while the inside-region flag is true: a start marker precedes it with
\* no end marker in between
InsideRegion(ls, i) ==
    \E j \in 1..(i - 1) :
        /\ IsStartLine(ls[j])
        /\ \A k \in (j + 1)..(i - 1) : ~IsEndLine(ls[k])

\* the indices of the lines strip retains: not a marker, read outside the region
Retained(ls) ==
    {i \in 1..Len(ls) : ~IsStartLine(ls[i]) /\ ~IsEndLine(ls[i]) /\ ~InsideRegion(ls, i)}

\* C1: after every run of write_hosts with validator-accepted documents the file holds
\* exactly one start-marker line and exactly one end-marker line, the start marker first.
C1_ExactlyOneRegion ==
    runs >= 1 =>
        /\ Cardinality(StartLines(hosts)) = 1
        /\ Cardinality(EndLines(hosts)) = 1
        /\ \A i \in StartLines(hosts), j \in EndLines(hosts) : i < j

\* C2: a second write_hosts with the same documents and the same timestamp leaves the
\* file byte-identical to the result of the first.
C2_FixedPoint == sameRuns >= 2 => hosts = prevHosts

\* C3: for a file without any marker line, stripping the managed region from the result
\* of write_hosts gives back the original content, trailing whitespace trimmed.
C3_Preservation ==
    (runs = 1 /\ ~HasMarkerLine(origHosts)) =>
        remove_auto_managed_section(hosts) = TrimEnd(origHosts)

\* C6: content without a start-marker line is returned by strip unchanged.
C6_NoStartUnchanged ==
    (runs >= 1 /\ ~HasStartLine(prevHosts)) => cleaned_content = prevHosts

\* reached: strip ran on content that has a stray end marker and trailing whitespace
\* but no start marker
C6_Witness ==
    /\ runs >= 1
    /\ ~HasStartLine(prevHosts)
    /\ EndLines(prevHosts) # {}
    /\ TrimEnd(prevHosts) # prevHosts
    /\ cleaned_content = prevHosts

C8_UnterminatedDropped ==
    (runs >= 1 /\ HasStartLine(prevHosts)) =>
        LET ls == Lines(prevHosts)
            first == CHOOSE i \in StartLines(prevHosts) : \A j \in StartLines(prevHosts) : i <= j
        IN  (\A k \in EndLines(prevHosts) : k < first) =>
                cleaned_content =
                    TrimEnd(JoinLines(Select(ls, {i \in 1..(first - 1) : ~IsEndLine(ls[i])}, 1), LF))

\* reached: strip ran on content whose start marker is never closed, with text on both
\* sides of it
C8_Witness ==
    /\ runs >= 1
    /\ HasStartLine(prevHosts)
    /\ LET ls == Lines(prevHosts)
           first == CHOOSE i \in StartLines(prevHosts) : \A j \in StartLines(prevHosts) : i <= j
       IN  /\ \A k \in EndLines(prevHosts) : k < first
           /\ \E i \in 1..(first - 1) : Trim(ls[i]) # <<>> /\ ~IsEndLine(ls[i])
           /\ \E i \in (first + 1)..Len(ls) : Trim(ls[i]) # <<>>
    /\ cleaned_content # <<>>

\* the block render emits for one document
SourceBlock(d) == SOURCE_PREFIX \o d[1] \o LF \o Trim(d[2]) \o LF \o LF

\* the number of characters render emits before the block of document i
RECURSIVE BlockOffset(_, _, _)
BlockOffset(srcs, ts, i) ==
    IF i = 1
    THEN Len(START_MARKER) + Len(DISCLAIMER) + Len(LAST_UPDATE_PREFIX) + Len(ts) + 4
    ELSE BlockOffset(srcs, ts, i - 1) + Len(SourceBlock(srcs[i - 1]))

\* C9: render emits the start marker, the disclaimer, the last-updated line with the
\* timestamp, a blank line, one block per document in the caller's order (origin line,
\* trimmed text, blank line), and the end marker; nothing is reordered or deduplicated.
C9_RenderLayout ==
    sameRuns >= 1 =>
        LET out == auto_section
            ls == Lines(out)
            n == Len(sources_content)
            off(i) == BlockOffset(sources_content, last_update, i)
        IN  /\ Len(ls) >= 5
            /\ ls[1] = START_MARKER
            /\ ls[2] = DISCLAIMER
            /\ ls[3] = LAST_UPDATE_PREFIX \o last_update
            /\ ls[4] = <<>>
            /\ Len(out) = off(n + 1) + Len(END_MARKER) + 1
            /\ \A i \in 1..n :
                SubSeq(out, off(i) + 1, off(i + 1)) = SourceBlock(sources_content[i])
            /\ SubSeq(out, off(n + 1) + 1, Len(out)) = END_MARKER \o LF

\* reached: render ran on two documents of the same origin with the same text, and on none
C9_Witness ==
    /\ sameRuns >= 1
    /\ Len(sources_content) = 2
    /\ sources_content[1] = sources_content[2]
    /\ Len(auto_section) > 0

---------------------------------------------------------------------------
(* SpecValidate: the validators applied to fetched text *)

\* ss joined with the terminator nl between the lines, the last line unterminated
JoinBetween(ss, nl) ==
    Concat([k \in 1..Len(ss) |-> IF k < Len(ss) THEN ss[k] \o nl ELSE ss[k]])

\* the lines a fetched document is made of
DocLines == { <<>>, SP \o TAB, CommentLine, RecA, RecB, RecC, NoName, BadIp, BadIp2,
              BadDomain, CtrlLine }

\* sequences of at most n lines
RECURSIVE LineSeqs(_)
LineSeqs(n) ==
    IF n = 0 THEN {<<>>}
    ELSE LineSeqs(n - 1) \cup {Append(ss, l) : ss \in LineSeqs(n - 1), l \in DocLines}

\* the texts a source may return: lines terminated by "\n" or "\r\n", the last
\* terminator present or absent
Responses ==
    UNION { { JoinLines(ss, LF), JoinLines(ss, CR \o LF), JoinBetween(ss, LF) }
            : ss \in LineSeqs(MaxLines) }

\* labels of the longest accepted length (line 134), and one character more
Label63 == Rep(97, 63)
Label64 == Rep(97, 64)

\* the tokens handed to is_valid_domain
Tokens ==
    { <<>>, TokExample, TokLocalhost, TokHyphen, TokUpper, TokLeadHyphen, TokTrailHyphen,
      TokEmptyLabel, TokUnderscore, TokTrailDot, TokLeadDot, TokOnlyHyphen, TokInnerHyphen,
      TokSlash, TokLatinE, TokLatinAcute, TokSuperTwo, TokCjk,
      Label63, Label64, Label63 \o DOT \o Label64,
      Label63 \o DOT \o Label63 \o DOT \o Label63 \o DOT \o Rep(98, 61),
      Label63 \o DOT \o Label63 \o DOT \o Label63 \o DOT \o Rep(98, 62) }

MergeIdle ==
    /\ hosts = <<>>
    /\ prevHosts = <<>>
    /\ origHosts = <<>>
    /\ sources_content = <<>>
    /\ last_update = <<>>
    /\ cleaned_content = <<>>
    /\ auto_section = <<>>
    /\ runs = 0
    /\ sameRuns = 0

InitValidate ==
    /\ \/ content \in Responses /\ domain = <<>>
       \/ content = <<>> /\ domain \in Tokens
    /\ verdict = Ok
    /\ domainOk = FALSE
    /\ checked = "none"
    /\ MergeIdle
    /\ CycleIdle

\* validate_hosts_content applied to the text
ValidateContent ==
    /\ checked = "none"
    /\ verdict' = validate_hosts_content(content)
    /\ checked' = "content"
    /\ UNCHANGED <<content, domain, domainOk>>
    /\ UNCHANGED mergeVars
    /\ UNCHANGED cycleVars

\* is_valid_domain applied to the token
ValidateDomain ==
    /\ checked = "none"
    /\ domainOk' = is_valid_domain(domain)
    /\ checked' = "domain"
    /\ UNCHANGED <<content, domain, verdict>>
    /\ UNCHANGED mergeVars
    /\ UNCHANGED cycleVars

NextValidate == ValidateContent \/ ValidateDomain

SpecValidate == InitValidate /\ [][NextValidate]_vars

\* a line that validate_hosts_content hands to validate_hosts_line
IsRecordLine(line) == Trim(line) # <<>> /\ Trim(line)[1] # 35

\* a valid record: an address and at least one name, all well-formed
ValidRecord(line) ==
    LET parts == SplitWhitespace(line, 1) IN
    /\ Len(parts) >= 2
    /\ is_valid_ip(parts[1])
    /\ \A k \in 2..Len(parts) : is_valid_domain(parts[k])

\* the 1-based numbers of the lines of c that are records and not valid ones
FailingLines(c) ==
    LET ls == Lines(c) IN {k \in 1..Len(ls) : IsRecordLine(ls[k]) /\ ~ValidRecord(ls[k])}

\* C5: validate_hosts_content accepts a text iff it is not blank, holds no control
\* character but \n, \r, \t, and has no failing line; when a line fails, the error is
\* that of the lowest-numbered failing line and carries its 1-based number.
C5_AllOrNothing ==
    checked = "content" =>
        LET blank == \A i \in 1..Len(content) : IsWhitespace(content[i])
            control == \E i \in 1..Len(content) :
                           content[i] \in ((0..31) \cup (127..159)) \ {9, 10, 13}
            failing == FailingLines(content)
        IN  /\ verdict.ok <=> (~blank /\ ~control /\ failing = {})
            /\ (~blank /\ ~control /\ failing # {}) =>
                  /\ verdict.kind \in {"missing_field", "invalid_ip", "invalid_domain"}
                  /\ verdict.at \in failing
                  /\ \A k \in failing : verdict.at <= k

\* reached: a document whose first line is a comment or blank and whose second line has
\* a bad name was rejected with line number 2
C5_Witness ==
    /\ checked = "content"
    /\ ~verdict.ok
    /\ verdict.kind = "invalid_domain"
    /\ verdict.at = 2
    /\ ~IsRecordLine(Lines(content)[1])

IsAsciiAlnum(c) == c \in 48..57 \/ c \in 65..90 \/ c \in 97..122

\* the name grammar of the specification: labels of 1-63 characters of [a-zA-Z0-9-]
\* that begin and end with one of [a-zA-Z0-9], joined by ".", 1-253 characters in all
NameGrammar(d) ==
    LET n == Len(d) IN
    /\ n \in 1..253
    /\ \A i \in 1..n : IsAsciiAlnum(d[i]) \/ d[i] = 45 \/ d[i] = 46
    /\ IsAsciiAlnum(d[1]) /\ IsAsciiAlnum(d[n])
    /\ \A i \in 1..n : d[i] = 46 => (IsAsciiAlnum(d[i - 1]) /\ IsAsciiAlnum(d[i + 1]))
    /\ \A i \in 1..(n - 63) : \E j \in i..(i + 63) : d[j] = 46

\* C10: is_valid_domain accepts a token iff it follows the name grammar.
C10_NameGrammar == checked = "domain" => (domainOk <=> NameGrammar(domain))

---------------------------------------------------------------------------
(* Spec: the update cycle of main.rs under Scheduler::start *)

\* the bodies a source may return
DocInvalid == RecA \o LF \o BadDomain \o LF
FetchTexts == {DocA, DocInvalid, SP \o LF, CtrlLine}

\* what the request of fetch_hosts_content can end in before validation: send() fails,
\* the status is not a success, text() fails, or the body arrives
FetchAnswers ==
    {[net |-> e, text |-> <<>>] : e \in {"send_err", "status_err", "text_err"}}
        \cup {[net |-> "ok", text |-> t] : t \in FetchTexts}

\* fetch_hosts_content(url): Ok(content) or the error, for one answer of the network
fetch_hosts_content(answer) ==
    IF answer.net # "ok" THEN Err(answer.net, 0, <<>>)
    ELSE LET v == validate_hosts_content(answer.text) IN
         IF ~v.ok THEN v ELSE [ok |-> TRUE, kind |-> "ok", at |-> 0, text |-> answer.text]

\* the configurations validate_config accepts: at least one source, each an
\* http:// or https:// URL
Configs ==
    {[hosts_sources |-> s, backup_before_update |-> b] :
        s \in {<<UrlA>>, <<UrlA, UrlB>>}, b \in BOOLEAN}

Init ==
    /\ hosts \in { <<>>,
                   UserLine \o LF,
                   UserLine \o CR \o LF \o START_MARKER \o LF \o OldLine \o LF \o END_MARKER \o LF }
    /\ prevHosts = hosts
    /\ origHosts = hosts
    /\ sources_content = <<>>
    /\ last_update = <<>>
    /\ cleaned_content = <<>>
    /\ auto_section = <<>>
    /\ runs = 0
    /\ sameRuns = 0
    /\ ValidateIdle
    /\ config \in Configs
    /\ pc = "first"
    /\ cycle = 0
    /\ idx = 1
    /\ results = <<>>
    /\ cycleStartHosts = hosts
    /\ backupFile = <<>>
    /\ outcome = "none"
    /\ wrote = FALSE
    /\ ticks = 0
    /\ inflight = 0
    /\ finished = 0
    /\ failures = 0

\* the update task is called: run_update begins
BeginUpdate ==
    /\ pc' = "backup"
    /\ cycle' = cycle + 1
    /\ idx' = 1
    /\ results' = <<>>
    /\ cycleStartHosts' = hosts
    /\ wrote' = FALSE
    /\ inflight' = inflight + 1
    /\ UNCHANGED <<config, backupFile, outcome, finished, failures>>
    /\ UNCHANGED mergeVars
    /\ UNCHANGED validateVars

\* Scheduler::start, line 45: the task is run once at once
StartFirst ==
    /\ pc = "first"
    /\ BeginUpdate
    /\ UNCHANGED ticks

\* the loop of Scheduler::start with the task spawned and not awaited
Tick_NotAwaited ==
    /\ pc # "first"
    /\ cycle < MaxCycles
    /\ BeginUpdate
    /\ ticks' = ticks + 1

\* Scheduler::start, lines 49-52: a tick of the interval, then the task again; the loop
\* is at interval.tick().await only once the task before it was awaited to its end
Tick ==
    /\ pc = "tick"
    /\ cycle < MaxCycles
    /\ BeginUpdate
    /\ ticks' = ticks + 1

\* run_update's error leaving the task and ending Scheduler::start
Return_StopOnError(e) ==
    /\ pc' = IF e = "ok" THEN "tick" ELSE "stopped"
    /\ outcome' = e
    /\ inflight' = inflight - 1
    /\ finished' = finished + 1
    /\ failures' = IF e = "ok" THEN failures ELSE failures + 1

\* run_update returns e; create_update_task only logs an error (lines 68-70), the task
\* future completes and Scheduler::start goes on to the next interval.tick().await
Return(e) ==
    /\ pc' = "tick"
    /\ outcome' = e
    /\ inflight' = inflight - 1
    /\ finished' = finished + 1
    /\ failures' = IF e = "ok" THEN failures ELSE failures + 1

\* the task future is not over yet
Pending == UNCHANGED <<inflight, finished, failures>>

\* run_update, lines 83-86: backup_hosts, when configured; the backup path names a
\* file other than the hosts file
Backup(fails) ==
    /\ pc = "backup"
    /\ IF config.backup_before_update /\ fails
       THEN Return("backup_err") /\ UNCHANGED backupFile
       ELSE /\ pc' = "read"
            /\ backupFile' = IF config.backup_before_update THEN hosts ELSE backupFile
            /\ UNCHANGED outcome
            /\ Pending
    /\ UNCHANGED <<config, cycle, idx, results, cycleStartHosts, wrote, ticks>>
    /\ UNCHANGED mergeVars
    /\ UNCHANGED validateVars

\* run_update, lines 89-90: read_hosts_content
ReadCurrent(fails) ==
    /\ pc = "read"
    /\ IF fails THEN Return("read_err") ELSE pc' = "fetch" /\ UNCHANGED outcome /\ Pending
    /\ UNCHANGED <<config, cycle, idx, results, cycleStartHosts, backupFile, wrote, ticks>>
    /\ UNCHANGED mergeVars
    /\ UNCHANGED validateVars

\* fetch_all_hosts going on to the next source when one fails
fetch_all_hosts_skip_failed(answer) ==
    LET url == config.hosts_sources[idx]
        r == fetch_hosts_content(answer)
        pushed == IF r.ok THEN Append(results, <<url, r.text>>) ELSE results
    IN  IF idx = Len(config.hosts_sources)
        THEN /\ sources_content' = pushed
             /\ results' = <<>>
             /\ pc' = "write"
             /\ UNCHANGED <<idx, outcome>>
             /\ Pending
        ELSE /\ results' = pushed
             /\ idx' = idx + 1
             /\ UNCHANGED <<sources_content, pc, outcome>>
             /\ Pending

\* fetch_all_hosts, one turn of the loop over sources (lines 186-197), and its return
\* to run_update (line 94) once the loop is over or a source failed
fetch_all_hosts(answer) ==
    LET url == config.hosts_sources[idx]
        r == fetch_hosts_content(answer)
    IN  IF r.ok
        THEN LET pushed == Append(results, <<url, r.text>>) IN
             IF idx = Len(config.hosts_sources)
             THEN /\ sources_content' = pushed
                  /\ results' = <<>>
                  /\ pc' = "write"
                  /\ UNCHANGED <<idx, outcome>>
                  /\ Pending
             ELSE /\ results' = pushed
                  /\ idx' = idx + 1
                  /\ UNCHANGED <<sources_content, pc, outcome>>
                  /\ Pending
        ELSE /\ results' = <<>>
             /\ Return(IF r.kind \in {"send_err", "status_err", "text_err"}
                       THEN "fetch_err" ELSE "invalid_content")
             /\ UNCHANGED <<sources_content, idx>>

FetchNext(answer) ==
    /\ pc = "fetch"
    /\ fetch_all_hosts(answer)
    /\ UNCHANGED <<config, cycle, cycleStartHosts, backupFile, wrote, ticks>>
    /\ UNCHANGED <<hosts, prevHosts, origHosts, last_update, cleaned_content, auto_section,
                   runs, sameRuns>>
    /\ UNCHANGED validateVars

\* chrono::Local::now() in the cycle at hand, formatted (line 98): time moves on
\* from one cycle to the next
Now == IF cycle = 1 THEN Ts1 ELSE Ts2

\* run_update, lines 98-104: the timestamp, write_hosts, and the return
WriteStep(io) ==
    /\ pc = "write"
    /\ last_update' = Now
    /\ write_hosts(sources_content, Now, io)
    /\ wrote' = TRUE
    /\ Return(IF io = "ok" THEN "ok" ELSE "write_err")
    /\ UNCHANGED <<origHosts, sources_content, sameRuns>>
    /\ UNCHANGED <<config, cycle, idx, results, cycleStartHosts, backupFile, ticks>>
    /\ UNCHANGED validateVars

Next ==
    \/ StartFirst
    \/ Tick
    \/ \E fails \in BOOLEAN : Backup(fails)
    \/ \E fails \in BOOLEAN : ReadCurrent(fails)
    \/ \E answer \in FetchAnswers : FetchNext(answer)
    \/ \E io \in IoOutcomes : WriteStep(io)

Spec == Init /\ [][Next]_vars

\* C4: write_hosts is invoked only with one validated document per configured source, in
\* the configured order; a cycle that ends in a fetch or validation failure has not
\* invoked write_hosts and leaves the hosts file as it was when the cycle began.
C4_WriteOnlyIfAllFetched ==
    /\ (pc = "write" \/ wrote) =>
          /\ Len(sources_content) = Len(config.hosts_sources)
          /\ \A i \in 1..Len(sources_content) :
                /\ sources_content[i][1] = config.hosts_sources[i]
                /\ validate_hosts_content(sources_content[i][2]).ok
    /\ (pc = "tick" /\ outcome \in {"fetch_err", "invalid_content"}) =>
          /\ ~wrote
          /\ results = <<>>
          /\ hosts = cycleStartHosts

\* reached: in the second cycle the second source failed validation after the first was
\* fetched, and the file written by the first cycle is still in place
C4_Witness ==
    /\ pc = "tick"
    /\ cycle = 2
    /\ outcome = "invalid_content"
    /\ idx = 2
    /\ ~wrote
    /\ runs = 1
    /\ hosts = cycleStartHosts
    /\ hosts # origHosts

\* C11: the task runs once at the start and then once per tick of the interval, one
\* cycle at a time: every cycle begun earlier has completed before the next begins, so
\* at most one cycle is in flight and a write to the hosts file belongs to that one cycle.
C11_OneCycleAtATime ==
    /\ inflight \in {0, 1}
    /\ (inflight = 1) <=> (pc \in {"backup", "read", "fetch", "write"})
    /\ cycle = finished + inflight
    /\ cycle = IF pc = "first" THEN 0 ELSE ticks + 1

\* reached: after one tick the second cycle is about to write, the first one completed
C11_Witness ==
    /\ pc = "write"
    /\ cycle = 2
    /\ ticks = 1
    /\ finished = 1
    /\ inflight = 1

\* the runtime keeps polling Scheduler::start: the first call of the task is made, and
\* interval.tick().await completes whenever the loop waits on it
FairSpec == Spec /\ WF_vars(StartFirst) /\ WF_vars(Tick)

\* C12: a cycle that returns an error does not stop the schedule: the next cycle begins
\* (up to the bound on cycles), and a later cycle whose sources all succeed and whose
\* write succeeds leaves the hosts file with the newly rendered section.
C12_FailureDoesNotStop ==
    /\ \A n \in 1..(MaxCycles - 1) :
          (finished = n /\ outcome \notin {"none", "ok"}) ~> (cycle = n + 1)
    /\ []((pc = "tick" /\ outcome = "ok" /\ failures >= 1) =>
            /\ wrote
            /\ hosts = Combine(remove_auto_managed_section(cycleStartHosts),
                               build_auto_section(sources_content, last_update)))

\* reached: the first cycle failed, the second fetched every source and wrote the file
C12_Witness ==
    /\ pc = "tick"
    /\ cycle = 2
    /\ failures = 1
    /\ outcome = "ok"
    /\ wrote
    /\ hosts # cycleStartHosts

=============================================================================
